---- MODULE Spec2Model ----
(***************************************************************************)
(* A model of the booty-hunt server core (server/src): the weekly rotation *)
(* of regatta seeds and tide omens, run submission and ranking, and the    *)
(* signal-fire redemption exchange, all working on one SQLite connection   *)
(* behind a mutex (Db::with_conn).                                         *)
(*                                                                         *)
(* Every request is served by a thread.  A thread's steps are the places   *)
(* where it can be interleaved with the others: the entry of the service   *)
(* function (validation, clock reads), each with_conn closure (one atomic  *)
(* step: the mutex is held for the whole closure), and the code between    *)
(* two closures when it reads the clock.                                   *)
(*                                                                         *)
(* Time is counted in whole days since a Monday 00:00 UTC (day 0).         *)
(* Strings the code transforms (codes, player names) are sequences of      *)
(* one-character strings.  64-bit integers the code derives from a digest  *)
(* are kept as 8 big-endian bytes, so two's-complement wrap-around is      *)
(* exact.                                                                  *)
(*                                                                         *)
(* Next is the whole server.  The features share the clock and nothing     *)
(* else but the runs table, which get_or_create_regatta reads; each is     *)
(* explored in a specification of its own (SpecFire, SpecTide, SpecRuns,   *)
(* SpecRegatta), and SeqSpecFire holds the sequential histories of the     *)
(* signal-fire operations.  SeqSpecBoard and SeqSpec hold the sequential   *)
(* histories of the ghost fleet and of the whole server, SpecConn takes    *)
(* with_conn in its parts, and SpecFault adds statements that fail for a   *)
(* reason of the store's own; elsewhere the only store failures are        *)
(* uniqueness violations.  SpecCreate holds create_signal_fire alone,      *)
(* SpecSeed the seed derivation on any digest, and SpecLedger the regatta  *)
(* on a store that already holds a season's runs.                          *)
(***************************************************************************)
EXTENDS Integers, Sequences, FiniteSets, TLC

\* ------------------------------------------------------------------ bounds
NumProcs == 2          \* concurrent request threads
StartDay == 4          \* the day the server starts (a Friday of week 0)
MaxDay == 8            \* the clock stops advancing here (a Tuesday of week 1)
MaxFires == 1          \* create_signal_fire is not called once this many are stored
MaxRuns == 3           \* submit_run is not called once this many are stored or under way
MaxContribs == 2       \* tide contributions stored
MaxWaits == 2          \* busy_timeout periods a wait for the connection is followed for
MaxRows == 2           \* rows in all tables together, in the histories of the whole server
LedgerRuns == 11       \* runs with the week's regatta seed in the ledger the regatta is drawn from

Procs == 1..NumProcs

\* ------------------------------------------------------- program constants
DaysPerWeek == 7               \* %G-W%V: ISO weeks, Monday to Sunday
ExpiryDays == 3                \* Duration::hours(72)
HEAT_COST == 5                 \* let heat_cost = 5.0
CODE_LEN == 8                  \* (0..8) in generate_code
MAX_PLAYER_NAME_LEN == 32
MAX_GHOST_TAPE_SIZE == 524288  \* 512 * 1024
REGATTA_TOP == 10              \* LIMIT 10
BUSY_TIMEOUT_MS == 5000

VALID_SHIP_CLASSES == {"sloop", "brigantine", "galleon"}
VALID_AID_TYPES == {"supplies", "intel", "rep"}

NULL == -1                     \* SQL NULL in an integer column

\* ---------------------------------------------------------------- strings
Str1(c, n) == [i \in 1..n |-> c]

IsSpace(c) == c \in {" ", "\t", "\n"}

RECURSIVE TrimLeft(_)
TrimLeft(s) == IF s = <<>> THEN s
               ELSE IF IsSpace(Head(s)) THEN TrimLeft(Tail(s)) ELSE s

RECURSIVE TrimRight(_)
TrimRight(s) == IF s = <<>> THEN s
                ELSE IF IsSpace(s[Len(s)]) THEN TrimRight(SubSeq(s, 1, Len(s) - 1)) ELSE s

\* str::trim
Trim(s) == TrimRight(TrimLeft(s))

UpperChar(c) == CASE c = "a" -> "A"
                  [] c = "b" -> "B"
                  [] c = "z" -> "Z"
                  [] OTHER -> c

\* str::to_uppercase
ToUpper(s) == [i \in 1..Len(s) |-> UpperChar(s[i])]

\* chars().take(n).collect()
Take(s, n) == SubSeq(s, 1, IF Len(s) < n THEN Len(s) ELSE n)

\* ------------------------------------------------------------------ clock
\* Utc::now().format("%G-W%V"): the ISO week of a day; weeks are numbered from
\* the week of day 0 and stand for the "YYYY-Www" keys in calendar order.
WeekKeyOf(day) == day \div DaysPerWeek

\* now.weekday().num_days_from_monday()
WeekdayOf(day) == day % DaysPerWeek

\* ----------------------------------------------------------------- errors
\* AppError's variants, and "Ok" for a successful result.
ErrorKinds == {"Db", "NotFound", "BadRequest", "Internal"}

\* The spec's error taxonomy (section 7) for each AppError variant: BadRequest is
\* the variant every validation failure uses, Db wraps rusqlite::Error.
Taxonomy(kind) == CASE kind = "BadRequest" -> "Validation"
                    [] kind = "Db" -> "Storage"
                    [] kind = "NotFound" -> "NotFound"
                    [] kind = "Internal" -> "Internal"
                    [] OTHER -> "Ok"

Ok(v) == [kind |-> "Ok", msg |-> "", val |-> v]
Err(k, m) == [kind |-> k, msg |-> m, val |-> <<>>]
NoResult == [kind |-> "none", msg |-> "", val |-> <<>>]
NoLocals == [op |-> "none"]

VARIABLES
  now,                \* the wall clock, in days
  runs,               \* table runs, in rowid order
  regattas,           \* table regattas
  signal_fires,       \* table signal_fires
  tide_omens,         \* table tide_omens
  tide_contributions, \* table tide_contributions
  pc,                 \* each thread's position
  loc,                \* each thread's locals
  res,                \* each thread's result, once it has one
  redeem_log,         \* history: the codes of the redemptions that returned Ok
  create_log          \* history: the requests of the creations that returned Ok

tables == <<runs, regattas, signal_fires, tide_omens, tide_contributions>>
vars == <<now, runs, regattas, signal_fires, tide_omens, tide_contributions,
          pc, loc, res, redeem_log, create_log>>
hist == <<redeem_log, create_log>>

\* Rows of a table matching a predicate on one column.
RowsWhere(tbl, col, v) == {i \in 1..Len(tbl) : tbl[i][col] = v}

Init ==
  /\ now = StartDay
  /\ runs = <<>>
  /\ regattas = <<>>
  /\ signal_fires = <<>>
  /\ tide_omens = <<>>
  /\ tide_contributions = <<>>
  /\ pc = [p \in Procs |-> "idle"]
  /\ loc = [p \in Procs |-> NoLocals]
  /\ res = [p \in Procs |-> NoResult]
  /\ redeem_log = <<>>
  /\ create_log = <<>>

\* The clock advances by a day between any two steps.
Tick ==
  /\ now < MaxDay
  /\ now' = now + 1
  /\ UNCHANGED <<tables, pc, loc, res, hist>>

\* A thread hands its result to the transport layer and serves the next request.
Return(p) ==
  /\ pc[p] = "done"
  /\ pc' = [pc EXCEPT ![p] = "idle"]
  /\ loc' = [loc EXCEPT ![p] = NoLocals]
  /\ res' = [res EXCEPT ![p] = NoResult]
  /\ UNCHANGED <<now, tables, hist>>

\* A thread finishes with result r.
Finish(p, r) ==
  /\ pc' = [pc EXCEPT ![p] = "done"]
  /\ res' = [res EXCEPT ![p] = r]

\* ------------------------------------------------------------ validation.rs
validate_aid_type(aid_type) ==
  IF aid_type \in VALID_AID_TYPES THEN "Ok" ELSE "BadRequest"

\* A bug: the lower end is off by one, and an amount of 0 passes.
validate_aid_amount_allows_zero(amount) ==
  IF amount < 0 \/ amount > 100 THEN "BadRequest" ELSE "Ok"

validate_aid_amount(amount) ==
  IF amount < 1 \/ amount > 100 THEN "BadRequest" ELSE "Ok"

\* ------------------------------------------------------------ signal fires
\* The alphabet of generate_code, cut to the letters the model draws.
CodeChars == {"A"}

\* generate_code: 8 characters of the alphabet; the model draws the codes made of
\* one repeated letter.
GeneratedCodes == {Str1(c, CODE_LEN) : c \in CodeChars}

\* The requests create_signal_fire is called with.
CreateInputs ==
  { [creator_run |-> "run-123", aid_type |-> "supplies", aid_amount |-> 10],
    [creator_run |-> "run-123", aid_type |-> "rep",      aid_amount |-> 100],
    [creator_run |-> "run-123", aid_type |-> "gold",     aid_amount |-> 10],
    [creator_run |-> "run-123", aid_type |-> "intel",    aid_amount |-> 0],
    [creator_run |-> "run-123", aid_type |-> "intel",    aid_amount |-> 101] }

\* The codes redeem_signal_fire is called with: a generated code as issued, the same
\* in lower case with surrounding blanks, and a code that was never issued.
RedeemInputs ==
  { Str1("A", CODE_LEN),
    <<" ">> \o Str1("a", CODE_LEN) \o <<" ">>,
    Str1("Z", CODE_LEN) }

\* create_signal_fire up to its with_conn: validation, the code, the expiry.
CreateCall(p, req, code) ==
  /\ pc[p] = "idle"
  /\ Len(signal_fires) < MaxFires
  /\ IF validate_aid_type(req.aid_type) # "Ok"
       THEN /\ Finish(p, Err("BadRequest", "Invalid aid type"))
            /\ loc' = [loc EXCEPT ![p] = [op |-> "create", req |-> req]]
     ELSE IF validate_aid_amount(req.aid_amount) # "Ok"
       THEN /\ Finish(p, Err("BadRequest", "Aid amount must be 1-100"))
            /\ loc' = [loc EXCEPT ![p] = [op |-> "create", req |-> req]]
     ELSE /\ pc' = [pc EXCEPT ![p] = "create_insert"]
          /\ loc' = [loc EXCEPT ![p] =
                       [op |-> "create", req |-> req, code |-> code,
                        expires_at |-> now + ExpiryDays, heat_cost |-> HEAT_COST,
                        issued_at |-> now]]
          /\ UNCHANGED res
  /\ UNCHANGED <<now, tables, hist>>

\* The row INSERT INTO signal_fires writes; redeemed and redeemed_at take the
\* schema's defaults.
NewFireRow(l) ==
  [code |-> l.code, creator_run |-> l.req.creator_run, aid_type |-> l.req.aid_type,
   aid_amount |-> l.req.aid_amount, heat_cost |-> l.heat_cost,
   expires_at |-> l.expires_at, redeemed |-> 0, redeemed_at |-> NULL]

\* signal_fires.code is unique: an INSERT of a stored code fails.
FireCodeTaken(tbl, code) == RowsWhere(tbl, "code", code) # {}

\* create_signal_fire's with_conn: the INSERT.
CreateInsert(p) ==
  /\ pc[p] = "create_insert"
  /\ IF FireCodeTaken(signal_fires, loc[p].code)
       THEN /\ Finish(p, Err("Db", "UNIQUE constraint failed: signal_fires.code"))
            /\ UNCHANGED <<signal_fires, create_log>>
       ELSE /\ signal_fires' = Append(signal_fires, NewFireRow(loc[p]))
            /\ Finish(p, Ok([code |-> loc[p].code]))
            /\ create_log' = Append(create_log, [code |-> loc[p].code, req |-> loc[p].req,
                                                  issued_at |-> loc[p].issued_at])
  /\ UNCHANGED <<now, runs, regattas, tide_omens, tide_contributions, loc, redeem_log>>

\* Concurrent create_signal_fire calls alone.
NextCreate ==
  \/ Tick
  \/ \E p \in Procs : Return(p)
  \/ \E p \in Procs, req \in CreateInputs, code \in GeneratedCodes : CreateCall(p, req, code)
  \/ \E p \in Procs : CreateInsert(p)

SpecCreate == Init /\ [][NextCreate]_vars

\* code.trim().to_uppercase()
NormalizeCode(raw) == ToUpper(Trim(raw))

\* redeem_signal_fire up to its first with_conn.
RedeemCall(p, raw) ==
  /\ pc[p] = "idle"
  /\ pc' = [pc EXCEPT ![p] = "redeem_select"]
  /\ loc' = [loc EXCEPT ![p] = [op |-> "redeem", code |-> NormalizeCode(raw)]]
  /\ UNCHANGED <<now, tables, res, hist>>

\* SELECT aid_type, aid_amount, heat_cost, redeemed, expires_at ... WHERE code = ?1
SelectFire(tbl, code) ==
  LET hit == RowsWhere(tbl, "code", code) IN
  IF hit = {} THEN [found |-> FALSE]
  ELSE LET r == tbl[CHOOSE i \in hit : \A j \in hit : i <= j] IN
       [found |-> TRUE, aid_type |-> r.aid_type, aid_amount |-> r.aid_amount,
        heat_cost |-> r.heat_cost, redeemed |-> r.redeemed, expires_at |-> r.expires_at]

\* redeem_signal_fire's first with_conn: the SELECT, and the match on its result.
RedeemSelect(p) ==
  /\ pc[p] = "redeem_select"
  /\ LET row == SelectFire(signal_fires, loc[p].code) IN
     IF row.found
       THEN /\ pc' = [pc EXCEPT ![p] = "redeem_check"]
            /\ loc' = [loc EXCEPT ![p] = [op |-> "redeem", code |-> loc[p].code, row |-> row]]
            /\ UNCHANGED res
       ELSE /\ Finish(p, Err("NotFound", "Invalid signal fire code"))
            /\ UNCHANGED loc
  /\ UNCHANGED <<now, tables, hist>>

\* Utc::now() > exp_utc.  expires_at is always a string create_signal_fire
\* formatted, so parse_from_str succeeds and the comparison is made.
IsExpired(expires_at, instant) == instant > expires_at

\* Between the two with_conn calls: the redeemed flag and the expiry, both of the
\* row as it was read, the expiry against the clock as it is now.
RedeemCheck(p) ==
  /\ pc[p] = "redeem_check"
  /\ loc' = [loc EXCEPT ![p] = [op |-> "redeem", code |-> loc[p].code,
                                row |-> loc[p].row, checked_at |-> now]]
  /\ IF loc[p].row.redeemed # 0
       THEN Finish(p, Err("BadRequest", "Signal fire already redeemed"))
     ELSE IF IsExpired(loc[p].row.expires_at, now)
       THEN Finish(p, Err("BadRequest", "Signal fire expired"))
     ELSE /\ pc' = [pc EXCEPT ![p] = "redeem_update"]
          /\ UNCHANGED res
  /\ UNCHANGED <<now, tables, hist>>

\* A bug: the UPDATE sets the redemption time and leaves the flag.
UpdateRedeemed_flag_unset(tbl, code, instant) ==
  [i \in 1..Len(tbl) |->
     IF tbl[i].code = code THEN [tbl[i] EXCEPT !.redeemed_at = instant] ELSE tbl[i]]

\* UPDATE signal_fires SET redeemed = 1, redeemed_at = datetime('now') WHERE code = ?1
UpdateRedeemed(tbl, code, instant) ==
  [i \in 1..Len(tbl) |->
     IF tbl[i].code = code
       THEN [tbl[i] EXCEPT !.redeemed = 1, !.redeemed_at = instant]
       ELSE tbl[i]]

\* redeem_signal_fire's second with_conn: the UPDATE, then the result built from the
\* row read before.
RedeemUpdate(p) ==
  /\ pc[p] = "redeem_update"
  /\ signal_fires' = UpdateRedeemed(signal_fires, loc[p].code, now)
  /\ Finish(p, Ok([aid_type |-> loc[p].row.aid_type,
                   aid_amount |-> loc[p].row.aid_amount,
                   heat_cost |-> loc[p].row.heat_cost]))
  /\ redeem_log' = Append(redeem_log, loc[p].code)
  /\ UNCHANGED <<now, runs, regattas, tide_omens, tide_contributions, loc, create_log>>

NextFire ==
  \/ Tick
  \/ \E p \in Procs : Return(p)
  \/ \E p \in Procs, req \in CreateInputs, code \in GeneratedCodes : CreateCall(p, req, code)
  \/ \E p \in Procs : CreateInsert(p)
  \/ \E p \in Procs, raw \in RedeemInputs : RedeemCall(p, raw)
  \/ \E p \in Procs : RedeemSelect(p)
  \/ \E p \in Procs : RedeemCheck(p)
  \/ \E p \in Procs : RedeemUpdate(p)

SpecFire == Init /\ [][NextFire]_vars

\* A sequential history: no two requests overlap.
Busy == {p \in Procs : pc[p] \notin {"idle", "done"}}
\* The same steps, a request starting only when no other is under way.
SeqNextFire ==
  \/ Tick
  \/ \E p \in Procs : Return(p)
  \/ \E p \in Procs, req \in CreateInputs, code \in GeneratedCodes :
       Busy = {} /\ CreateCall(p, req, code)
  \/ \E p \in Procs : CreateInsert(p)
  \/ \E p \in Procs, raw \in RedeemInputs : Busy = {} /\ RedeemCall(p, raw)
  \/ \E p \in Procs : RedeemSelect(p)
  \/ \E p \in Procs : RedeemCheck(p)
  \/ \E p \in Procs : RedeemUpdate(p)

SeqSpecFire == Init /\ [][SeqNextFire]_vars

\* ------------------------------------------------- deterministic selection
\* Sha256 over week_key bytes followed by a domain tag; the first 8 bytes of the
\* digest.  SHA-256 itself is not computed: a fixed function of the same two
\* arguments stands for it, with bytes on both sides of 128.
TagSalt(tag) == IF tag = "booty-hunt-regatta" THEN 60 ELSE 200

Sha256Prefix(week_key, tag) ==
  [i \in 1..8 |-> (TagSalt(tag) + 97 * week_key + 29 * i) % 256]

\* i64::from_be_bytes: the sign of the 8 bytes read as a two's-complement integer.
IsNegative64(b) == b[1] >= 128

\* Two's-complement negation of 8 big-endian bytes, modulo 2^64.
Negate64(b) ==
  [i \in 1..8 |->
     ((255 - b[i]) + (IF \A j \in (i + 1)..8 : b[j] = 0 THEN 1 ELSE 0)) % 256]

\* i64::from_be_bytes(..).unsigned_abs() as i64, as 8 big-endian bytes.
UnsignedAbsAsI64(b) == IF IsNegative64(b) THEN Negate64(b) ELSE b

\* The seed get_or_create_regatta derives for a week.
RegattaSeed(week_key) == UnsignedAbsAsI64(Sha256Prefix(week_key, "booty-hunt-regatta"))

\* The first 8 digest bytes the derivation is applied to: both signs, the ends of
\* the range (0, the greatest and the least 64-bit integers, -1) and values
\* around them.
DigestInputs ==
  {<<a>> \o Str1(m, 6) \o <<z>> : a \in {0, 1, 127, 128, 129, 255}, m \in {0, 255},
                                   z \in {0, 1, 255}}

\* The derivation in get_or_create_regatta, on the digest the hasher has produced:
\* result[0..8] read as a big-endian i64, unsigned_abs() as i64.
DeriveSeed(p, digest) ==
  /\ pc[p] = "idle"
  /\ Finish(p, Ok(UnsignedAbsAsI64(digest)))
  /\ loc' = [loc EXCEPT ![p] = [op |-> "derive_seed", digest |-> digest]]
  /\ UNCHANGED <<now, tables, hist>>

NextSeed ==
  \/ \E p \in Procs : Return(p)
  \/ \E p \in Procs, digest \in DigestInputs : DeriveSeed(p, digest)

SpecSeed == Init /\ [][NextSeed]_vars

\* ------------------------------------------------------------ tide calendar
OMENS ==
  << [id |-> "red_tide",       name |-> "Red Tide",
      modifiers |-> [armed_percent_bonus |-> "0.10", speed_multiplier |-> "1.05"]],
     [id |-> "dead_calm",      name |-> "Dead Calm",
      modifiers |-> [speed_multiplier |-> "0.85", gold_multiplier |-> "1.15"]],
     [id |-> "storm_season",   name |-> "Storm Season",
      modifiers |-> [force_weather |-> "stormy", damage_multiplier |-> "1.10"]],
     [id |-> "ghost_moon",     name |-> "Ghost Moon",
      modifiers |-> [force_weather |-> "night", ghost_chance |-> "0.20"]],
     [id |-> "golden_current", name |-> "Golden Current",
      modifiers |-> [gold_multiplier |-> "1.25", health_multiplier |-> "0.90"]],
     [id |-> "fog_bank",       name |-> "Fog Bank",
      modifiers |-> [force_weather |-> "foggy", vision_multiplier |-> "0.70"]],
     [id |-> "fair_winds",     name |-> "Fair Winds",
      modifiers |-> [speed_multiplier |-> "1.10", health_multiplier |-> "1.05"]] >>

\* A bug: the index is taken from the digest's second byte.
omen_for_week_second_byte(week_key) ==
  OMENS[(Sha256Prefix(week_key, "booty-hunt-tide")[2] % Len(OMENS)) + 1]

\* omen_for_week: the catalog entry at result[0] % OMENS.len() (OMENS is indexed
\* from 1 here).
omen_for_week(week_key) ==
  OMENS[(Sha256Prefix(week_key, "booty-hunt-tide")[1] % Len(OMENS)) + 1]

\* get_tide_omen up to its first with_conn: the week key.
OmenCall(p) ==
  /\ pc[p] = "idle"
  /\ pc' = [pc EXCEPT ![p] = "omen_select"]
  /\ loc' = [loc EXCEPT ![p] = [op |-> "omen", week_key |-> WeekKeyOf(now)]]
  /\ UNCHANGED <<now, tables, res, hist>>

\* The TideOmen a row or a catalog entry is returned as.
TideOmenOf(week_key, id, name, modifiers) ==
  [week_key |-> week_key, omen_id |-> id, omen_name |-> name, modifiers |-> modifiers]

\* get_tide_omen's first with_conn: the SELECT, and the match on its result.
OmenSelect(p) ==
  /\ pc[p] = "omen_select"
  /\ LET hit == RowsWhere(tide_omens, "week_key", loc[p].week_key) IN
     IF hit # {}
       THEN LET r == tide_omens[CHOOSE i \in hit : \A j \in hit : i <= j] IN
            /\ Finish(p, Ok(TideOmenOf(loc[p].week_key, r.omen_id, r.omen_name, r.modifiers)))
            /\ UNCHANGED loc
       ELSE /\ pc' = [pc EXCEPT ![p] = "omen_insert"]
            /\ loc' = [loc EXCEPT ![p] = [op |-> "omen", week_key |-> loc[p].week_key,
                                          omen |-> omen_for_week(loc[p].week_key)]]
            /\ UNCHANGED res
  /\ UNCHANGED <<now, tables, hist>>

\* tide_omens.week_key is unique: an INSERT of a stored week key fails.
OmenWeekTaken(tbl, week_key) == RowsWhere(tbl, "week_key", week_key) # {}

\* get_tide_omen's second with_conn: the INSERT of the omen derived before.
OmenInsert(p) ==
  /\ pc[p] = "omen_insert"
  /\ LET o == loc[p].omen IN
     IF OmenWeekTaken(tide_omens, loc[p].week_key)
       THEN /\ Finish(p, Err("Db", "UNIQUE constraint failed: tide_omens.week_key"))
            /\ UNCHANGED tide_omens
       ELSE /\ tide_omens' = Append(tide_omens,
                               [week_key |-> loc[p].week_key, omen_id |-> o.id,
                                omen_name |-> o.name, modifiers |-> o.modifiers])
            /\ Finish(p, Ok(TideOmenOf(loc[p].week_key, o.id, o.name, o.modifiers)))
  /\ UNCHANGED <<now, runs, regattas, signal_fires, tide_contributions, loc, hist>>

NextTide ==
  \/ Tick
  \/ \E p \in Procs : Return(p)
  \/ \E p \in Procs : OmenCall(p)
  \/ \E p \in Procs : OmenSelect(p)
  \/ \E p \in Procs : OmenInsert(p)

SpecTide == Init /\ [][NextTide]_vars

\* The contributions contribute_tide is called with (the value is a float the code
\* stores as it comes).
ContributeInputs ==
  { [metric |-> "ships_destroyed", value |-> 42],
    [metric |-> "gold_plundered", value |-> 0] }

\* The threads that are in contribute_tide's with_conn, waiting or running.
InContribute == {q \in Procs : pc[q] \in {"contribute_conn", "conn_held"}}

\* contribute_tide up to its with_conn: the week key (the id is a fresh UUID,
\* which the row's position stands for).  waited is the time the thread has spent
\* in Mutex::lock, in milliseconds.
ContributeCall(p, req) ==
  /\ pc[p] = "idle"
  /\ Len(tide_contributions) + Cardinality(InContribute) < MaxContribs
  /\ pc' = [pc EXCEPT ![p] = "contribute_conn"]
  /\ loc' = [loc EXCEPT ![p] = [op |-> "contribute", req |-> req,
                                  week_key |-> WeekKeyOf(now), called_at |-> now,
                                  waited |-> 0]]
  /\ UNCHANGED <<now, tables, res, hist>>

\* The row INSERT INTO tide_contributions writes.
NewContribution(l, id) ==
  [id |-> id, week_key |-> l.week_key, metric |-> l.req.metric, value |-> l.req.value]

\* A bug: a week holds one contribution per metric, and a further one is dropped.
InsertContribution_once_per_metric(tbl, row) ==
  IF \E i \in 1..Len(tbl) : tbl[i].week_key = row.week_key /\ tbl[i].metric = row.metric
    THEN tbl
    ELSE Append(tbl, row)

\* INSERT INTO tide_contributions: a new row after the stored ones (the id is
\* fresh, and no other column is constrained).
InsertContribution(tbl, row) == Append(tbl, row)

\* The closure of contribute_tide: the INSERT, and accepted: true.
ContributeInsert(p) ==
  /\ tide_contributions' =
       InsertContribution(tide_contributions,
                          NewContribution(loc[p], Len(tide_contributions) + 1))
  /\ Finish(p, Ok([accepted |-> TRUE]))
  /\ UNCHANGED <<now, runs, regattas, signal_fires, tide_omens, loc, hist>>

\* contribute_tide's with_conn as one step, as every other with_conn is taken.
ContributeConn(p) == pc[p] = "contribute_conn" /\ ContributeInsert(p)

\* ------------------------------------------------------------- Db::with_conn
\* with_conn in its parts, for the threads of contribute_tide: Mutex::lock returns
\* when no thread holds the connection, the closure runs with the connection
\* held, and the guard is dropped when the closure returns.  lock has no timeout:
\* a thread stays in it for as long as the connection is held.
ConnHolders == {q \in Procs : pc[q] = "conn_held"}

\* self.conn.lock().unwrap() returns to thread p.
WithConnLock(p) ==
  /\ pc[p] = "contribute_conn"
  /\ ConnHolders = {}
  /\ pc' = [pc EXCEPT ![p] = "conn_held"]
  /\ UNCHANGED <<now, tables, loc, res, hist>>

\* f(&conn) runs and returns to thread p; the guard goes out of scope.
WithConnClosure(p) == pc[p] = "conn_held" /\ ContributeInsert(p)

\* The connection stays held for one more busy_timeout: a statement of the
\* holder's closure is slow, or waits in SQLite's busy handler.  Every thread in
\* lock has waited that much longer.
WithConnHeld ==
  /\ ConnHolders # {}
  /\ \E p \in Procs : pc[p] = "contribute_conn"
  /\ \A p \in Procs :
       pc[p] = "contribute_conn" => loc[p].waited < MaxWaits * BUSY_TIMEOUT_MS
  /\ loc' = [p \in Procs |->
               IF pc[p] = "contribute_conn"
                 THEN [loc[p] EXCEPT !.waited = @ + BUSY_TIMEOUT_MS]
                 ELSE loc[p]]
  /\ UNCHANGED <<now, tables, pc, res, hist>>

NextConn ==
  \/ Tick
  \/ \E p \in Procs : Return(p)
  \/ \E p \in Procs, req \in ContributeInputs : ContributeCall(p, req)
  \/ \E p \in Procs : WithConnLock(p)
  \/ \E p \in Procs : WithConnClosure(p)
  \/ WithConnHeld

SpecConn == Init /\ [][NextConn]_vars

\* -------------------------------------------------------------- ghost fleet
validate_ship_class(class) ==
  IF class \in VALID_SHIP_CLASSES THEN "Ok" ELSE "BadRequest"

\* A bug: the comparison is off by one, and a score of -1 passes.
validate_score_off_by_one(score) == IF score < -1 THEN "BadRequest" ELSE "Ok"

validate_score(score) == IF score < 0 THEN "BadRequest" ELSE "Ok"

\* A bug: the name is cut to 32 characters before it is trimmed.
validate_player_name_cut_first(name) ==
  LET trimmed == Trim(Take(name, MAX_PLAYER_NAME_LEN)) IN
  IF trimmed = <<>> THEN <<"A", "n", "o", "n", "y", "m", "o", "u", "s">>
  ELSE trimmed

validate_player_name(name) ==
  LET trimmed == Trim(name) IN
  IF trimmed = <<>> THEN <<"A", "n", "o", "n", "y", "m", "o", "u", "s">>
  ELSE Take(trimmed, MAX_PLAYER_NAME_LEN)

\* An Option is a sequence of at most one element.
None == <<>>
Some(x) == <<x>>

\* A bug: the limit is exclusive, and a tape of exactly MAX_GHOST_TAPE_SIZE bytes
\* is refused.
validate_ghost_tape_exclusive(tape) ==
  IF tape # None /\ tape[1].len >= MAX_GHOST_TAPE_SIZE THEN "BadRequest" ELSE "Ok"

\* validate_ghost_tape, on an Option of decoded bytes.
validate_ghost_tape(tape) ==
  IF tape # None /\ tape[1].len > MAX_GHOST_TAPE_SIZE THEN "BadRequest" ELSE "Ok"

\* A base64 text is kept as its count of 4-character groups, its padding and whether
\* it is well formed; the bytes it decodes to as their count and a tag for their
\* content.
Base64Decode(b64) ==
  IF b64.well_formed
    THEN [ok |-> TRUE, bytes |-> [len |-> 3 * b64.quads - b64.pad, tag |-> b64.tag]]
    ELSE [ok |-> FALSE]

B64(quads, pad, ok, tag) == [quads |-> quads, pad |-> pad, well_formed |-> ok, tag |-> tag]

Chars(n) == Str1("x", n)

\* The requests submit_run is called with: three valid ones (a tie arises from the
\* same request sent twice) and one for each way to be invalid.  Columns the code copies from the request
\* to the row without looking at them (waves, ships_destroyed, damage_dealt,
\* max_combo, time_played, max_heat) are left out.
SubmitInputs ==
  { [seed |-> RegattaSeed(WeekKeyOf(StartDay)), ship_class |-> "sloop",
     doctrine_id |-> "plunder", score |-> 5, victory |-> FALSE, ghost_tape |-> None,
     player_name |-> <<"T", "e", "s", "t">>],
    [seed |-> Str1(1, 8), ship_class |-> "brigantine",
     doctrine_id |-> "trade", score |-> 9, victory |-> TRUE,
     ghost_tape |-> Some(B64(174763, 1, TRUE, "t1")),
     player_name |-> <<" ", " ">>],
    [seed |-> RegattaSeed(WeekKeyOf(StartDay)), ship_class |-> "galleon",
     doctrine_id |-> "plunder", score |-> 0, victory |-> FALSE,
     ghost_tape |-> Some(B64(1, 2, TRUE, "t2")),
     player_name |-> <<" ">> \o Chars(MAX_PLAYER_NAME_LEN + 1) \o <<" ">>],
    [seed |-> Str1(1, 8), ship_class |-> "submarine",
     doctrine_id |-> "plunder", score |-> 100, victory |-> FALSE, ghost_tape |-> None,
     player_name |-> <<"T", "e", "s", "t">>],
    [seed |-> Str1(1, 8), ship_class |-> "sloop",
     doctrine_id |-> "plunder", score |-> -1, victory |-> FALSE, ghost_tape |-> None,
     player_name |-> <<"T", "e", "s", "t">>],
    [seed |-> Str1(1, 8), ship_class |-> "sloop",
     doctrine_id |-> "plunder", score |-> 5, victory |-> FALSE,
     ghost_tape |-> Some(B64(2, 0, FALSE, "t3")),
     player_name |-> <<"T", "e", "s", "t">>],
    [seed |-> Str1(1, 8), ship_class |-> "sloop",
     doctrine_id |-> "plunder", score |-> 5, victory |-> FALSE,
     ghost_tape |-> Some(B64(174763, 0, TRUE, "t4")),
     player_name |-> <<"T", "e", "s", "t">>] }

\* The validation submit_run starts with: the first failure, or "Ok".
SubmitValidation(req) ==
  IF validate_ship_class(req.ship_class) # "Ok" THEN Err("BadRequest", "Invalid ship class")
  ELSE IF validate_score(req.score) # "Ok" THEN Err("BadRequest", "Score cannot be negative")
  ELSE IF req.ghost_tape = None THEN Ok(None)
  ELSE LET d == Base64Decode(req.ghost_tape[1]) IN
       IF ~d.ok THEN Err("BadRequest", "Invalid ghost tape encoding")
       ELSE IF validate_ghost_tape(Some(d.bytes)) # "Ok"
         THEN Err("BadRequest", "Ghost tape too large")
       ELSE Ok(Some(d.bytes))

\* submit_run up to its with_conn: validation, the decoded tape, the week key.
SubmitCall(p, req) ==
  /\ pc[p] = "idle"
  /\ Len(runs) + Cardinality({q \in Procs : pc[q] = "submit_conn"}) < MaxRuns
  /\ LET v == SubmitValidation(req) IN
     IF v.kind # "Ok"
       THEN /\ Finish(p, v)
            /\ loc' = [loc EXCEPT ![p] = [op |-> "submit", req |-> req]]
       ELSE /\ pc' = [pc EXCEPT ![p] = "submit_conn"]
            /\ loc' = [loc EXCEPT ![p] =
                         [op |-> "submit", req |-> req, ghost_tape |-> v.val,
                          player_name |-> validate_player_name(req.player_name),
                          week_key |-> WeekKeyOf(now),
                          victory_int |-> IF req.victory THEN 1 ELSE 0]]
            /\ UNCHANGED res
  /\ UNCHANGED <<now, tables, hist>>

\* The row INSERT INTO runs writes.  The id is a fresh UUID, drawn before the insert
\* and used nowhere else: the row's position stands for it.
NewRunRow(l, id) ==
  [id |-> id, seed |-> l.req.seed, ship_class |-> l.req.ship_class,
   doctrine_id |-> l.req.doctrine_id, score |-> l.req.score, victory |-> l.victory_int,
   ghost_tape |-> l.ghost_tape, player_name |-> l.player_name, week_key |-> l.week_key]

\* A bug: runs with an equal score are counted too.
CountGreater_or_equal(tbl, score) ==
  Cardinality({i \in 1..Len(tbl) : tbl[i].score >= score})

\* SELECT COUNT(*) FROM runs WHERE score > ?1
CountGreater(tbl, score) == Cardinality({i \in 1..Len(tbl) : tbl[i].score > score})

\* A bug: the INSERT replaces the stored run of the same player.
InsertRun_or_replace(tbl, row) ==
  IF \E i \in 1..Len(tbl) : tbl[i].player_name = row.player_name
    THEN [i \in 1..Len(tbl) |-> IF tbl[i].player_name = row.player_name THEN row ELSE tbl[i]]
    ELSE Append(tbl, row)

\* INSERT INTO runs: a new row after the stored ones (the id is fresh, so the
\* primary key never conflicts).
InsertRun(tbl, row) == Append(tbl, row)

\* submit_run's with_conn: the INSERT, then the rank counted in the same closure.
SubmitConn(p) ==
  /\ pc[p] = "submit_conn"
  /\ LET id == Len(runs) + 1 IN
     /\ runs' = InsertRun(runs, NewRunRow(loc[p], id))
     /\ Finish(p, Ok([id |-> id, rank |-> CountGreater(runs', loc[p].req.score) + 1]))
  /\ UNCHANGED <<now, regattas, signal_fires, tide_omens, tide_contributions, loc, hist>>

NextRuns ==
  \/ Tick
  \/ \E p \in Procs : Return(p)
  \/ \E p \in Procs, req \in SubmitInputs : SubmitCall(p, req)
  \/ \E p \in Procs : SubmitConn(p)

SpecRuns == Init /\ [][NextRuns]_vars

\* A run as a LeaderboardEntry.
EntryOf(r) ==
  [id |-> r.id, player_name |-> r.player_name, score |-> r.score,
   victory |-> (r.victory # 0), ship_class |-> r.ship_class, doctrine_id |-> r.doctrine_id]

Min(a, b) == IF a < b THEN a ELSE b

\* ORDER BY score DESC LIMIT n over the rows S of a table: every order the store
\* may answer in, as sequences of row positions (the order of equal scores is the
\* store's).  A negative n is no limit.
RECURSIVE OrderByScoreDesc(_, _, _)
OrderByScoreDesc(tbl, S, n) ==
  IF n = 0 \/ S = {} THEN {<<>>}
  ELSE LET top == {i \in S : \A j \in S : tbl[i].score >= tbl[j].score} IN
       UNION {{<<i>> \o rest : rest \in OrderByScoreDesc(tbl, S \ {i}, n - 1)} : i \in top}

\* SELECT seed FROM regattas WHERE week_key = ?1, with .ok(): an Option.
SelectRegattaSeed(tbl, week_key) ==
  LET hit == RowsWhere(tbl, "week_key", week_key) IN
  IF hit = {} THEN None
  ELSE Some(tbl[CHOOSE i \in hit : \A j \in hit : i <= j].seed)

\* regattas.week_key is unique: a row with a stored week key conflicts.
RegattaWeekTaken(tbl, week_key) == RowsWhere(tbl, "week_key", week_key) # {}

\* INSERT OR IGNORE INTO regattas: a conflicting row is dropped without an error.
InsertOrIgnoreRegatta(tbl, week_key, seed) ==
  IF RegattaWeekTaken(tbl, week_key) THEN tbl
  ELSE Append(tbl, [week_key |-> week_key, seed |-> seed])

\* A bug: the week's row is never written.
RegattasAfter_no_insert(tbl, week_key) == tbl

\* A bug: the row is written on every call, as a plain insert into a table that
\* takes it.
RegattasAfter_every_call(tbl, week_key) ==
  Append(tbl, [week_key |-> week_key, seed |-> RegattaSeed(week_key)])

\* The regattas table after get_or_create_regatta's lookup and insert.
RegattasAfter(tbl, week_key) ==
  IF SelectRegattaSeed(tbl, week_key) # None THEN tbl
  ELSE InsertOrIgnoreRegatta(tbl, week_key, RegattaSeed(week_key))

\* The seed get_or_create_regatta returns: the stored one, or the one it derived.
RegattaSeedReturned(tbl, week_key) ==
  LET existing == SelectRegattaSeed(tbl, week_key) IN
  IF existing # None THEN existing[1] ELSE RegattaSeed(week_key)

\* A bug: the week is not part of the WHERE clause.
RegattaWhere_seed_only(tbl, seed, week_key) == {i \in 1..Len(tbl) : tbl[i].seed = seed}

\* The rows WHERE seed = ?1 AND week_key = ?2 keeps.
RegattaWhere(tbl, seed, week_key) ==
  {i \in 1..Len(tbl) : tbl[i].seed = seed /\ tbl[i].week_key = week_key}

\* (8 - weekday) % 7, and 7 when that is 0.
DaysUntilMonday(weekday) ==
  LET d == (8 - weekday) % DaysPerWeek IN IF d = 0 THEN 7 ELSE d

\* get_or_create_regatta up to its with_conn: the week key.
RegattaCall(p) ==
  /\ pc[p] = "idle"
  /\ pc' = [pc EXCEPT ![p] = "regatta_conn"]
  /\ loc' = [loc EXCEPT ![p] = [op |-> "regatta", week_key |-> WeekKeyOf(now)]]
  /\ UNCHANGED <<now, tables, res, hist>>

\* get_or_create_regatta's with_conn: the lookup, the insert, the top runs and the
\* end of the week, in one closure.
RegattaConn(p) ==
  /\ pc[p] = "regatta_conn"
  /\ LET week_key == loc[p].week_key
         seed == RegattaSeedReturned(regattas, week_key)
         match == RegattaWhere(runs, seed, week_key)
     IN
     /\ regattas' = RegattasAfter(regattas, week_key)
     /\ \E top \in OrderByScoreDesc(runs, match, REGATTA_TOP) :
          Finish(p, Ok([week_key |-> week_key, seed |-> seed,
                        ends_at |-> now + DaysUntilMonday(WeekdayOf(now)),
                        top_runs |-> [a \in 1..Len(top) |-> EntryOf(runs[top[a]])]]))
  /\ UNCHANGED <<now, runs, signal_fires, tide_omens, tide_contributions, loc, hist>>

NextRegatta ==
  \/ Tick
  \/ \E p \in Procs : Return(p)
  \/ \E p \in Procs : RegattaCall(p)
  \/ \E p \in Procs : RegattaConn(p)

SpecRegatta == Init /\ [][NextRegatta]_vars

\* The request of the i-th run of a season's ledger: LedgerRuns runs with the
\* regatta seed of the week the server starts in (the two lowest scores tied), then
\* a run with another seed and a run with the regatta seed of the week after, both
\* scoring above them all.
LedgerRequest(i) ==
  [seed |-> IF i <= LedgerRuns THEN RegattaSeed(WeekKeyOf(StartDay))
            ELSE IF i = LedgerRuns + 1 THEN Str1(1, 8)
            ELSE RegattaSeed(WeekKeyOf(StartDay) + 1),
   ship_class |-> "sloop", doctrine_id |-> "plunder",
   score |-> IF i <= 2 THEN 1 ELSE IF i <= LedgerRuns THEN i ELSE 10 * LedgerRuns,
   victory |-> FALSE, ghost_tape |-> None, player_name |-> <<"T", "e", "s", "t">>]

\* The runs table after submit_run has stored those runs, all in the week the
\* server starts in.
Ledger ==
  [i \in 1..(LedgerRuns + 2) |->
     NewRunRow([req |-> LedgerRequest(i), ghost_tape |-> None,
                player_name |-> validate_player_name(LedgerRequest(i).player_name),
                week_key |-> WeekKeyOf(StartDay), victory_int |-> 0], i)]

\* The server starts on a store that holds the ledger.
InitLedger ==
  /\ now = StartDay
  /\ runs = Ledger
  /\ regattas = <<>>
  /\ signal_fires = <<>>
  /\ tide_omens = <<>>
  /\ tide_contributions = <<>>
  /\ pc = [p \in Procs |-> "idle"]
  /\ loc = [p \in Procs |-> NoLocals]
  /\ res = [p \in Procs |-> NoResult]
  /\ redeem_log = <<>>
  /\ create_log = <<>>

\* The regatta of a season with more runs than it lists.
SpecLedger == InitLedger /\ [][NextRegatta]_vars

\* ----------------------------------------------------------- store failures
\* A statement may fail for a reason of the store's own (I/O, a busy or broken
\* database file), whatever the tables hold.  These are the steps of get_tide_omen
\* and get_or_create_regatta in which one statement fails so; failed names it.

\* get_tide_omen's first with_conn when the SELECT fails: Err(e) is not
\* QueryReturnedNoRows and is returned as AppError::from(e).
OmenSelectFails(p) ==
  /\ pc[p] = "omen_select"
  /\ Finish(p, Err("Db", "disk I/O error"))
  /\ loc' = [loc EXCEPT ![p] = [op |-> "omen", week_key |-> loc[p].week_key,
                                  failed |-> "SELECT tide_omens"]]
  /\ UNCHANGED <<now, tables, hist>>

\* get_tide_omen's second with_conn when the INSERT fails so: map_err, and ?.
OmenInsertFails(p) ==
  /\ pc[p] = "omen_insert"
  /\ Finish(p, Err("Db", "disk I/O error"))
  /\ loc' = [loc EXCEPT ![p] = [op |-> "omen", week_key |-> loc[p].week_key,
                                  omen |-> loc[p].omen, failed |-> "INSERT tide_omens"]]
  /\ UNCHANGED <<now, tables, hist>>

\* get_or_create_regatta's with_conn when the lookup fails: .ok() turns the error
\* into None, the seed is derived and INSERT OR IGNORE, the top runs and the end of
\* the week go on as when no seed is stored.
RegattaLookupFails(p) ==
  /\ pc[p] = "regatta_conn"
  /\ LET week_key == loc[p].week_key
         seed == RegattaSeed(week_key)
         match == RegattaWhere(runs, seed, week_key)
     IN
     /\ regattas' = InsertOrIgnoreRegatta(regattas, week_key, seed)
     /\ \E top \in OrderByScoreDesc(runs, match, REGATTA_TOP) :
          Finish(p, Ok([week_key |-> week_key, seed |-> seed,
                        ends_at |-> now + DaysUntilMonday(WeekdayOf(now)),
                        top_runs |-> [a \in 1..Len(top) |-> EntryOf(runs[top[a]])]]))
  /\ loc' = [loc EXCEPT ![p] = [op |-> "regatta", week_key |-> loc[p].week_key,
                                  failed |-> "SELECT regattas"]]
  /\ UNCHANGED <<now, runs, signal_fires, tide_omens, tide_contributions, hist>>

\* get_or_create_regatta's with_conn when no seed is stored and the INSERT OR
\* IGNORE fails so: ? leaves the closure with the error.
RegattaInsertFails(p) ==
  /\ pc[p] = "regatta_conn"
  /\ SelectRegattaSeed(regattas, loc[p].week_key) = None
  /\ Finish(p, Err("Db", "disk I/O error"))
  /\ loc' = [loc EXCEPT ![p] = [op |-> "regatta", week_key |-> loc[p].week_key,
                                  failed |-> "INSERT regattas"]]
  /\ UNCHANGED <<now, tables, hist>>

\* The weekly rotation on a store whose statements may fail.
NextFault ==
  \/ Tick
  \/ \E p \in Procs : Return(p)
  \/ \E p \in Procs : OmenCall(p)
  \/ \E p \in Procs : OmenSelect(p)
  \/ \E p \in Procs : OmenInsert(p)
  \/ \E p \in Procs : OmenSelectFails(p)
  \/ \E p \in Procs : OmenInsertFails(p)
  \/ \E p \in Procs : RegattaCall(p)
  \/ \E p \in Procs : RegattaConn(p)
  \/ \E p \in Procs : RegattaLookupFails(p)
  \/ \E p \in Procs : RegattaInsertFails(p)

SpecFault == Init /\ [][NextFault]_vars

\* ------------------------------------------------- leaderboard, ghost tape
MAX_LEADERBOARD == 100
MIN_LEADERBOARD == 1

Max(a, b) == IF a > b THEN a ELSE b

\* A bug: the floor is missing, and a limit of 0 or less reaches the query.
ClampLimit_no_floor(limit) == Min(limit, MAX_LEADERBOARD)

\* limit.min(100).max(1)
ClampLimit(limit) == Max(Min(limit, MAX_LEADERBOARD), MIN_LEADERBOARD)

\* A bug: a seed is demanded whatever the category.
LeaderboardValidation_any_category(category, seed) ==
  IF seed = None THEN "BadRequest" ELSE "Ok"

\* The check get_leaderboard makes before its with_conn.
LeaderboardValidation(category, seed) ==
  IF category = "seed" /\ seed = None THEN "BadRequest" ELSE "Ok"

\* A bug: the weekly query has lost its WHERE clause.
LeaderboardWhere_weekly_unfiltered(tbl, category, seed, week_key) ==
  {i \in 1..Len(tbl) : category = "seed" => (seed # None /\ tbl[i].seed = seed[1])}

\* The rows the WHERE clause of each category's query keeps: the week for
\* "weekly", the seed for "seed" (unwrapped: the validation has passed), every row
\* for any other category.
LeaderboardWhere(tbl, category, seed, week_key) ==
  {i \in 1..Len(tbl) :
     CASE category = "weekly" -> tbl[i].week_key = week_key
       [] category = "seed" -> seed # None /\ tbl[i].seed = seed[1]
       [] OTHER -> TRUE}

\* The queries get_leaderboard is called with: each category and an unknown one,
\* with and without a seed, limits below, at and above the clamp's ends.
LeaderboardInputs ==
  { [category |-> "weekly", seed |-> None, limit |-> 2],
    [category |-> "weekly", seed |-> None, limit |-> 101],
    [category |-> "global", seed |-> None, limit |-> 0],
    [category |-> "global", seed |-> Some(Str1(1, 8)), limit |-> 100],
    [category |-> "daily", seed |-> None, limit |-> 20],
    [category |-> "seed", seed |-> Some(Str1(1, 8)), limit |-> -1],
    [category |-> "seed", seed |-> Some(RegattaSeed(WeekKeyOf(StartDay))), limit |-> 1],
    [category |-> "seed", seed |-> None, limit |-> 20] }

\* get_leaderboard up to its with_conn: the clamped limit, the week key, the seed
\* check.
LeaderboardCall(p, req) ==
  /\ pc[p] = "idle"
  /\ IF LeaderboardValidation(req.category, req.seed) # "Ok"
       THEN /\ Finish(p, Err("BadRequest", "Seed required for seed category"))
            /\ loc' = [loc EXCEPT ![p] = [op |-> "leaderboard", req |-> req]]
       ELSE /\ pc' = [pc EXCEPT ![p] = "leaderboard_conn"]
            /\ loc' = [loc EXCEPT ![p] =
                         [op |-> "leaderboard", req |-> req,
                          limit |-> ClampLimit(req.limit),
                          week_key |-> WeekKeyOf(now), called_at |-> now]]
            /\ UNCHANGED res
  /\ UNCHANGED <<now, tables, hist>>

\* get_leaderboard's with_conn: the category's query, its rows as entries.
LeaderboardConn(p) ==
  /\ pc[p] = "leaderboard_conn"
  /\ LET l == loc[p]
         match == LeaderboardWhere(runs, l.req.category, l.req.seed, l.week_key)
     IN
     \E top \in OrderByScoreDesc(runs, match, l.limit) :
       Finish(p, Ok([a \in 1..Len(top) |-> EntryOf(runs[top[a]])]))
  /\ UNCHANGED <<now, tables, loc, hist>>

\* The run ids get_ghost_tape is called with: 0 is an id no run has.
GhostTapeInputs == {0, 1, 2}

\* A bug: a run stored without a tape answers with an empty tape.
GhostTapeResult_empty_tape(tbl, run_id) ==
  LET hit == RowsWhere(tbl, "id", run_id) IN
  IF hit = {} THEN Err("NotFound", "Run not found")
  ELSE LET tape == tbl[CHOOSE i \in hit : TRUE].ghost_tape IN
       IF tape = None THEN Ok([len |-> 0, tag |-> ""]) ELSE Ok(tape[1])

\* SELECT ghost_tape FROM runs WHERE id = ?1 and the match on its result.
GhostTapeResult(tbl, run_id) ==
  LET hit == RowsWhere(tbl, "id", run_id) IN
  IF hit = {} THEN Err("NotFound", "Run not found")
  ELSE LET tape == tbl[CHOOSE i \in hit : TRUE].ghost_tape IN
       IF tape = None THEN Err("NotFound", "Ghost tape not found for this run")
       ELSE Ok(tape[1])

\* get_ghost_tape: one with_conn and the match on its result.
GhostTape(p, run_id) ==
  /\ pc[p] = "idle"
  /\ Finish(p, GhostTapeResult(runs, run_id))
  /\ loc' = [loc EXCEPT ![p] = [op |-> "ghost_tape", run_id |-> run_id]]
  /\ UNCHANGED <<now, tables, hist>>

\* No request is in progress or waiting to be returned.
Quiet == \A p \in Procs : pc[p] = "idle"

\* Sequential histories of the ghost fleet: a request is taken up only when every
\* earlier one has been answered, and the clock runs on between a request's steps.
\* Each of the three operations has one with_conn, so what an interleaving of them
\* can store or read is what some sequential order of them stores or reads.
SeqNextBoard ==
  \/ Tick
  \/ \E p \in Procs : Return(p)
  \/ \E p \in Procs, req \in SubmitInputs : Quiet /\ SubmitCall(p, req)
  \/ \E p \in Procs : SubmitConn(p)
  \/ \E p \in Procs, req \in LeaderboardInputs : Quiet /\ LeaderboardCall(p, req)
  \/ \E p \in Procs : LeaderboardConn(p)
  \/ \E p \in Procs, run_id \in GhostTapeInputs : Quiet /\ GhostTape(p, run_id)

SeqSpecBoard == Init /\ [][SeqNextBoard]_vars

\* ------------------------------------------------------------------ server
Next ==
  \/ Tick
  \/ \E p \in Procs : Return(p)
  \/ \E p \in Procs, req \in CreateInputs, code \in GeneratedCodes : CreateCall(p, req, code)
  \/ \E p \in Procs : CreateInsert(p)
  \/ \E p \in Procs, raw \in RedeemInputs : RedeemCall(p, raw)
  \/ \E p \in Procs : RedeemSelect(p)
  \/ \E p \in Procs : RedeemCheck(p)
  \/ \E p \in Procs : RedeemUpdate(p)
  \/ \E p \in Procs : OmenCall(p)
  \/ \E p \in Procs : OmenSelect(p)
  \/ \E p \in Procs : OmenInsert(p)
  \/ \E p \in Procs, req \in SubmitInputs : SubmitCall(p, req)
  \/ \E p \in Procs : SubmitConn(p)
  \/ \E p \in Procs : RegattaCall(p)
  \/ \E p \in Procs : RegattaConn(p)
  \/ \E p \in Procs, req \in LeaderboardInputs : LeaderboardCall(p, req)
  \/ \E p \in Procs : LeaderboardConn(p)
  \/ \E p \in Procs, run_id \in GhostTapeInputs : GhostTape(p, run_id)
  \/ \E p \in Procs, req \in ContributeInputs : ContributeCall(p, req)
  \/ \E p \in Procs : ContributeConn(p)

Spec == Init /\ [][Next]_vars

\* Rows in all the tables.
RowCount ==
  Len(runs) + Len(regattas) + Len(signal_fires) + Len(tide_omens) + Len(tide_contributions)

\* A request that may add a row is taken up while rows are left to add.
RowsLeft == RowCount < MaxRows

\* Sequential histories of the whole server: a request is taken up only when every
\* earlier one has been answered, and the clock runs on between a request's steps.
SeqNext ==
  \/ Tick
  \/ \E p \in Procs : Return(p)
  \/ \E p \in Procs, req \in CreateInputs, code \in GeneratedCodes :
       Quiet /\ RowsLeft /\ CreateCall(p, req, code)
  \/ \E p \in Procs : CreateInsert(p)
  \/ \E p \in Procs, raw \in RedeemInputs : Quiet /\ RedeemCall(p, raw)
  \/ \E p \in Procs : RedeemSelect(p)
  \/ \E p \in Procs : RedeemCheck(p)
  \/ \E p \in Procs : RedeemUpdate(p)
  \/ \E p \in Procs : Quiet /\ RowsLeft /\ OmenCall(p)
  \/ \E p \in Procs : OmenSelect(p)
  \/ \E p \in Procs : OmenInsert(p)
  \/ \E p \in Procs, req \in SubmitInputs : Quiet /\ RowsLeft /\ SubmitCall(p, req)
  \/ \E p \in Procs : SubmitConn(p)
  \/ \E p \in Procs : Quiet /\ RowsLeft /\ RegattaCall(p)
  \/ \E p \in Procs : RegattaConn(p)
  \/ \E p \in Procs, req \in LeaderboardInputs : Quiet /\ LeaderboardCall(p, req)
  \/ \E p \in Procs : LeaderboardConn(p)
  \/ \E p \in Procs, run_id \in GhostTapeInputs : Quiet /\ GhostTape(p, run_id)
  \/ \E p \in Procs, req \in ContributeInputs : Quiet /\ RowsLeft /\ ContributeCall(p, req)
  \/ \E p \in Procs : ContributeConn(p)

SeqSpec == Init /\ [][SeqNext]_vars

\* ================================================================== claims

\* The stored signal fire with a code (codes are unique).
FireRows(code) == RowsWhere(signal_fires, "code", code)

\* The request a stored code was created with.
CreatedWith(code) ==
  LET i == CHOOSE i \in 1..Len(create_log) : create_log[i].code = code IN create_log[i].req

\* C1: for any stored code and any interleaving of concurrent redeem_signal_fire
\* calls on it, at most one call returns success.
C1_AtMostOneRedeemSucceeds ==
  \A i, j \in 1..Len(redeem_log) : redeem_log[i] = redeem_log[j] => i = j

\* A redeem_signal_fire call of thread p on a stored code ends in this step.
RedeemEnds(p) ==
  /\ pc[p] \in {"redeem_check", "redeem_update"}
  /\ pc'[p] = "done"

\* C2: in a sequential history the first redeem_signal_fire on a created,
\* unexpired, unredeemed code succeeds with the aid type and amount given at
\* creation and heat cost 5.0 and marks the record redeemed; every later redeem on
\* the code fails; a redeemed flag never returns to false.
C2_FirstRedeemWinsStep ==
  /\ \A p \in Procs : RedeemEnds(p) =>
       \A i \in FireRows(loc[p].code) :
         /\ (signal_fires[i].redeemed = 0 /\ now <= signal_fires[i].expires_at) =>
              /\ res'[p].kind = "Ok"
              /\ res'[p].val = [aid_type |-> CreatedWith(loc[p].code).aid_type,
                                aid_amount |-> CreatedWith(loc[p].code).aid_amount,
                                heat_cost |-> 5]
              /\ signal_fires'[i].redeemed = 1
         /\ signal_fires[i].redeemed # 0 => res'[p].kind \in ErrorKinds
  /\ \A i \in 1..Len(signal_fires) :
       signal_fires[i].redeemed # 0 =>
         /\ i <= Len(signal_fires')
         /\ signal_fires'[i].code = signal_fires[i].code
         /\ signal_fires'[i].redeemed # 0

C2_FirstRedeemWins == [][C2_FirstRedeemWinsStep]_vars

\* A first redemption has succeeded and a later one on the same code was refused.
C2_Witness ==
  \E p \in Procs :
    /\ pc[p] = "done"
    /\ loc[p].op = "redeem"
    /\ res[p].kind = "BadRequest"
    /\ res[p].msg = "Signal fire already redeemed"
    /\ \E k \in 1..Len(redeem_log) : redeem_log[k] = loc[p].code

\* C3: no signal fire is marked redeemed at an instant later than its stored
\* expiry, whatever happens between a redeem call's read and its write.
C3_NoRedeemAfterExpiry ==
  \A i \in 1..Len(signal_fires) :
    signal_fires[i].redeemed # 0 =>
      signal_fires[i].redeemed_at <= signal_fires[i].expires_at

\* A finished redeem_signal_fire call of p found the code stored, not redeemed, and
\* past its expiry when it compared the expiry with the clock.
RefusedExpired(p) ==
  /\ pc[p] = "done"
  /\ loc[p].op = "redeem"
  /\ "checked_at" \in DOMAIN loc[p]
  /\ loc[p].row.redeemed = 0
  /\ loc[p].row.expires_at < loc[p].checked_at

\* C4: redeeming a stored, never redeemed code whose expiry is strictly earlier
\* than the current instant is refused with a Conflict error, a kind distinct from
\* Validation, NotFound and Storage, and the record stays not redeemed.
C4_ExpiredIsConflict ==
  \A p \in Procs : RefusedExpired(p) =>
    /\ res[p].kind \in ErrorKinds
    /\ Taxonomy(res[p].kind) \notin {"Validation", "NotFound", "Storage"}
    /\ \A i \in FireRows(loc[p].code) : signal_fires[i].redeemed = 0

\* A finished call of operation op by thread p.
Finished(p, op) == pc[p] = "done" /\ loc[p].op = op

\* C5: concurrent get_tide_omen calls in a week with no omen stored all return
\* success with the same omen; none surfaces the uniqueness violation of a racing
\* insert.
C5_OmenRaceNeverErrors ==
  \A p \in Procs : Finished(p, "omen") =>
    /\ res[p].kind = "Ok"
    /\ \A q \in Procs :
         (Finished(q, "omen") /\ res[q].kind = "Ok"
            /\ res[q].val.week_key = res[p].val.week_key) =>
           res[q].val.omen_id = res[p].val.omen_id

\* C6: get_or_create_regatta calls racing in a week with no seed stored return no
\* error and all the same seed, the one stored for the week key once they have
\* completed; two sequential calls in a week return identical seeds too.
C6_RegattaCallsConverge ==
  \A p \in Procs : Finished(p, "regatta") =>
    /\ res[p].kind = "Ok"
    /\ \E i \in 1..Len(regattas) :
         /\ regattas[i].week_key = res[p].val.week_key
         /\ regattas[i].seed = res[p].val.seed
    /\ \A i \in 1..Len(regattas) :
         regattas[i].week_key = res[p].val.week_key => regattas[i].seed = res[p].val.seed
    /\ \A q \in Procs :
         (Finished(q, "regatta") /\ res[q].val.week_key = res[p].val.week_key) =>
           res[q].val.seed = res[p].val.seed

\* Two calls raced in a week that had no seed, and both have returned.
C6_Witness ==
  /\ \A p \in Procs : Finished(p, "regatta") /\ res[p].kind = "Ok"
  /\ \A p, q \in Procs : res[p].val.week_key = res[q].val.week_key
  /\ Len(regattas) = 1

\* A table holds at most one row per week key.
OnePerWeek(tbl) ==
  \A i, j \in 1..Len(tbl) : tbl[i].week_key = tbl[j].week_key => i = j

\* Every row of a table is still there, unchanged, after the step.
RowsKept(tbl, tblNext) ==
  /\ Len(tblNext) >= Len(tbl)
  /\ \A i \in 1..Len(tbl) : tblNext[i] = tbl[i]

\* C7: regattas holds at most one seed per week key; a stored seed is never changed
\* or removed; a week rollover adds a row and leaves the earlier weeks' rows.
C7_OneSeedPerWeekStep ==
  /\ OnePerWeek(regattas')
  /\ RowsKept(regattas, regattas')

C7_OneSeedPerWeek == [][C7_OneSeedPerWeekStep]_vars

\* After a rollover the table holds the old week's row and the new week's.
C7_Witness ==
  /\ Len(regattas) = 2
  /\ regattas[1].week_key # regattas[2].week_key
  /\ \E p \in Procs : Finished(p, "regatta") /\ res[p].val.week_key = regattas[1].week_key

\* The catalog position the spec gives a week's omen: first digest byte mod 7.
OmenIndex(week_key) == Sha256Prefix(week_key, "booty-hunt-tide")[1] % 7

\* C8: at most one tide omen is stored per week key; it is the catalog entry at
\* index (first digest byte mod 7), a valid index of the 7-entry catalog; it never
\* changes; two successful get_tide_omen calls in a week return the same omen_id.
C8_OneOmenPerWeekStep ==
  /\ Len(OMENS) = 7
  /\ OnePerWeek(tide_omens')
  /\ RowsKept(tide_omens, tide_omens')
  /\ \A i \in 1..Len(tide_omens') :
       LET r == tide_omens'[i] IN
       /\ OmenIndex(r.week_key) + 1 \in DOMAIN OMENS
       /\ r.omen_id = OMENS[OmenIndex(r.week_key) + 1].id
       /\ r.omen_name = OMENS[OmenIndex(r.week_key) + 1].name
       /\ r.modifiers = OMENS[OmenIndex(r.week_key) + 1].modifiers
  /\ \A p \in Procs :
       (pc'[p] = "done" /\ loc'[p].op = "omen" /\ res'[p].kind = "Ok") =>
         /\ \E i \in 1..Len(tide_omens') :
              /\ tide_omens'[i].week_key = res'[p].val.week_key
              /\ tide_omens'[i].omen_id = res'[p].val.omen_id
         /\ \A q \in Procs :
              (pc'[q] = "done" /\ loc'[q].op = "omen" /\ res'[q].kind = "Ok"
                 /\ res'[q].val.week_key = res'[p].val.week_key) =>
                res'[q].val.omen_id = res'[p].val.omen_id

C8_OneOmenPerWeek == [][C8_OneOmenPerWeekStep]_vars

\* Two weeks' omens are stored, and two calls of the later week have returned one.
C8_Witness ==
  /\ Len(tide_omens) = 2
  /\ \A p \in Procs :
       /\ Finished(p, "omen")
       /\ res[p].kind = "Ok"
       /\ res[p].val.week_key = tide_omens[2].week_key

\* The runs stored when thread p's run was inserted that score strictly more.
GreaterAtInsert(p) ==
  {i \in 1..res[p].val.id : runs[i].score > loc[p].req.score}

\* C9: the rank submit_run returns is 1 + the number of runs persisted at the moment
\* of its own insert whose score is strictly greater (a run tied with the maximum
\* gets rank 1; with strictly increasing scores every submission gets rank 1).
C9_RankIsSnapshotCount ==
  \A p \in Procs : (Finished(p, "submit") /\ res[p].kind = "Ok") =>
    /\ runs[res[p].val.id].score = loc[p].req.score
    /\ res[p].val.rank = 1 + Cardinality(GreaterAtInsert(p))

\* One run was ranked 1 on a tie with an earlier run, another was ranked below a
\* higher score.
C9_Witness ==
  \E p, q \in Procs :
    /\ Finished(p, "submit") /\ res[p].kind = "Ok"
    /\ Finished(q, "submit") /\ res[q].kind = "Ok"
    /\ res[p].val.rank = 1
    /\ \E i \in 1..(res[p].val.id - 1) : runs[i].score = loc[p].req.score
    /\ res[q].val.rank > 1

\* What the spec rejects in a submission.
TapeBytes(b64) == 3 * b64.quads - b64.pad
InvalidSubmission(req) ==
  \/ req.ship_class \notin {"sloop", "brigantine", "galleon"}
  \/ req.score < 0
  \/ /\ req.ghost_tape # None
     /\ \/ ~req.ghost_tape[1].well_formed
        \/ TapeBytes(req.ghost_tape[1]) > 512 * 1024

\* C10: submit_run with a ship class outside the catalog, a negative score, an
\* undecodable ghost tape or an oversized one returns a validation error and leaves
\* every table unchanged; every persisted run has score >= 0, a catalog ship class
\* and a ghost tape of at most 512 KiB.
C10_InvalidRunsWriteNothingStep ==
  /\ \A p \in Procs :
       (pc[p] = "idle" /\ pc'[p] # "idle" /\ loc'[p].op = "submit"
          /\ InvalidSubmission(loc'[p].req)) =>
         /\ pc'[p] = "done"
         /\ Taxonomy(res'[p].kind) = "Validation"
         /\ tables' = tables
  /\ \A i \in 1..Len(runs') :
       /\ runs'[i].score >= 0
       /\ runs'[i].ship_class \in {"sloop", "brigantine", "galleon"}
       /\ runs'[i].ghost_tape # None => runs'[i].ghost_tape[1].len <= 512 * 1024

C10_InvalidRunsWriteNothing == [][C10_InvalidRunsWriteNothingStep]_vars

\* A run is stored with a tape of exactly 512 KiB, and a submission with an
\* unknown ship class has been refused.
C10_Witness ==
  /\ \E i \in 1..Len(runs) :
       runs[i].ghost_tape # None /\ runs[i].ghost_tape[1].len = 512 * 1024
  /\ \E p \in Procs :
       /\ Finished(p, "submit")
       /\ loc[p].req.ship_class = "submarine"
       /\ res[p].kind = "BadRequest"

\* A submission that is valid but for the size of its well-formed tape.
TapeOnlyAtStake(req) ==
  /\ req.ship_class \in {"sloop", "brigantine", "galleon"}
  /\ req.score >= 0
  /\ req.ghost_tape # None
  /\ req.ghost_tape[1].well_formed

\* C11: the ghost-tape limit is inclusive at 512 KiB.  submit_run accepts and
\* persists a decoded tape of exactly 524288 bytes, and any shorter one, and
\* refuses one of 524289 bytes or more with a validation error.
C11_TapeLimitInclusiveStep ==
  \A p \in Procs :
    /\ (pc[p] = "idle" /\ pc'[p] # "idle" /\ loc'[p].op = "submit"
          /\ TapeOnlyAtStake(loc'[p].req)) =>
         LET n == TapeBytes(loc'[p].req.ghost_tape[1]) IN
         /\ n <= 524288 => pc'[p] = "submit_conn"
         /\ n >= 524289 => (pc'[p] = "done" /\ Taxonomy(res'[p].kind) = "Validation")
    /\ (pc[p] = "submit_conn" /\ pc'[p] # "submit_conn"
          /\ loc[p].req.ghost_tape # None) =>
         /\ pc'[p] = "done"
         /\ res'[p].kind = "Ok"
         /\ Len(runs') = Len(runs) + 1
         /\ runs'[res'[p].val.id].ghost_tape =
              Some([len |-> TapeBytes(loc[p].req.ghost_tape[1]),
                    tag |-> loc[p].req.ghost_tape[1].tag])

C11_TapeLimitInclusive == [][C11_TapeLimitInclusiveStep]_vars

\* Tapes of 524288 bytes and of 1 byte are stored, and one of 524289 bytes has
\* been refused.
C11_Witness ==
  /\ \E i \in 1..Len(runs) :
       runs[i].ghost_tape # None /\ runs[i].ghost_tape[1].len = 524288
  /\ \E i \in 1..Len(runs) :
       runs[i].ghost_tape # None /\ runs[i].ghost_tape[1].len = 1
  /\ \E p \in Procs :
       /\ Finished(p, "submit")
       /\ loc[p].req.ghost_tape # None
       /\ loc[p].req.ghost_tape[1].well_formed
       /\ TapeBytes(loc[p].req.ghost_tape[1]) = 524289
       /\ res[p].kind = "BadRequest"

\* Thread p's get_leaderboard query is answered in this step.
LeaderboardAnswered(p) == pc[p] = "leaderboard_conn" /\ pc'[p] = "done"

\* The stored runs a query is over, as the spec words the categories, for the week
\* the query was made in.
Matching(req, week) ==
  {i \in 1..Len(runs) :
     /\ req.category = "weekly" => runs[i].week_key = week
     /\ req.category = "seed" => runs[i].seed = req.seed[1]}

\* min(max(1, min(limit, 100)), m)
Returned(limit, m) ==
  LET capped == IF limit > 100 THEN 100 ELSE limit
      floored == IF capped < 1 THEN 1 ELSE capped
  IN IF floored < m THEN floored ELSE m

\* The stored runs an answer lists.
Listed(out) == {out[a].id : a \in 1..Len(out)}

\* C12: with M matching runs stored, get_leaderboard returns exactly
\* min(max(1, min(limit, 100)), M) entries, all of them distinct matching runs, in
\* non-increasing score order, and omits no matching run that scores strictly more
\* than a returned one.
C12_LeaderboardTopByScoreStep ==
  \A p \in Procs : LeaderboardAnswered(p) =>
    LET req == loc[p].req
        match == Matching(req, WeekKeyOf(loc[p].called_at))
        out == res'[p].val
    IN
    /\ res'[p].kind = "Ok"
    /\ Len(out) = Returned(req.limit, Cardinality(match))
    /\ Listed(out) \subseteq match
    /\ Cardinality(Listed(out)) = Len(out)
    /\ \A a \in 1..Len(out) : out[a].score = runs[out[a].id].score
    /\ \A a, b \in 1..Len(out) : a < b => out[a].score >= out[b].score
    /\ \A o \in match \ Listed(out) : \A a \in 1..Len(out) : runs[o].score <= out[a].score

C13_CategoryFiltersStep ==
  \A p \in Procs : LeaderboardAnswered(p) =>
    LET req == loc[p].req
        week == WeekKeyOf(loc[p].called_at)
        pool == CASE req.category = "weekly" ->
                       {i \in 1..Len(runs) : runs[i].week_key = week}
                  [] req.category = "seed" ->
                       {i \in 1..Len(runs) : runs[i].seed = req.seed[1]}
                  [] OTHER -> 1..Len(runs)
        out == res'[p].val
    IN
    /\ res'[p].kind = "Ok"
    /\ Listed(out) \subseteq pool
    /\ Len(out) < Returned(req.limit, Len(runs) + 1) => Listed(out) = pool

C13_CategoryFilters == [][C13_CategoryFiltersStep]_vars

\* A weekly query made in a later week has left out a stored run of an earlier
\* week and listed one of its own week.
C13_Witness ==
  \E p \in Procs :
    /\ Finished(p, "leaderboard")
    /\ res[p].kind = "Ok"
    /\ loc[p].req.category = "weekly"
    /\ \E i \in 1..Len(runs) : runs[i].week_key < loc[p].week_key
    /\ Len(res[p].val) = 1
    /\ runs[res[p].val[1].id].week_key = WeekKeyOf(loc[p].called_at)

\* C14: get_leaderboard with category "seed" and no seed returns a validation
\* error without a step on the store; with any other category, or with a seed, the
\* query goes to the store and is answered.
C14_SeedRequiredOnlyForSeedStep ==
  \A p \in Procs :
    /\ (pc[p] = "idle" /\ pc'[p] # "idle" /\ loc'[p].op = "leaderboard") =>
         IF loc'[p].req.category = "seed" /\ loc'[p].req.seed = None
           THEN /\ pc'[p] = "done"
                /\ Taxonomy(res'[p].kind) = "Validation"
                /\ tables' = tables
           ELSE pc'[p] = "leaderboard_conn"
    /\ (pc[p] = "leaderboard_conn" /\ pc'[p] # "leaderboard_conn") =>
         /\ \/ loc[p].req.category # "seed"
            \/ loc[p].req.seed # None
         /\ pc'[p] = "done"
         /\ res'[p].kind = "Ok"

C14_SeedRequiredOnlyForSeed == [][C14_SeedRequiredOnlyForSeedStep]_vars

\* A "seed" query without a seed has been refused while runs were stored.
C14_Witness ==
  \E p \in Procs :
    /\ Finished(p, "leaderboard")
    /\ loc[p].req.category = "seed"
    /\ loc[p].req.seed = None
    /\ res[p].kind = "BadRequest"
    /\ Len(runs) > 0

\* C16: get_ghost_tape returns the bytes persisted for a run stored with a tape, a
\* NotFound error for a stored run without one and a NotFound error for an id no
\* run has; it leaves every table unchanged.
C16_GhostTapeOutcomesStep ==
  \A p \in Procs :
    (pc[p] = "idle" /\ pc'[p] # "idle" /\ loc'[p].op = "ghost_tape") =>
      LET hit == {i \in 1..Len(runs) : runs[i].id = loc'[p].run_id} IN
      /\ pc'[p] = "done"
      /\ tables' = tables
      /\ Cardinality(hit) <= 1
      /\ hit = {} => Taxonomy(res'[p].kind) = "NotFound"
      /\ \A i \in hit :
           IF runs[i].ghost_tape = None
             THEN Taxonomy(res'[p].kind) = "NotFound"
             ELSE res'[p].kind = "Ok" /\ res'[p].val = runs[i].ghost_tape[1]

C16_GhostTapeOutcomes == [][C16_GhostTapeOutcomesStep]_vars

\* The tape of a run has been returned while a run without a tape was stored.
C16_Witness ==
  \E p \in Procs :
    /\ Finished(p, "ghost_tape")
    /\ res[p].kind = "Ok"
    /\ res[p].val = runs[loc[p].run_id].ghost_tape[1]
    /\ res[p].val.len = 524288
    /\ \E i \in 1..Len(runs) : runs[i].ghost_tape = None

\* C15: the ends_at get_or_create_regatta returns is the first Monday 00:00
\* strictly after the instant it is computed at: a Monday, between 1 and 7 days
\* ahead, and exactly 7 days ahead when computed on a Monday.
C15_EndsNextMondayStep ==
  \A p \in Procs : (pc[p] = "regatta_conn" /\ pc'[p] = "done") =>
    LET ends_at == res'[p].val.ends_at IN
    /\ WeekdayOf(ends_at) = 0
    /\ ends_at - now \in 1..7
    /\ WeekdayOf(now) = 0 => ends_at - now = 7

C15_EndsNextMonday == [][C15_EndsNextMondayStep]_vars

\* What the spec accepts in a signal fire.
ValidFire(req) ==
  /\ req.aid_type \in {"supplies", "intel", "rep"}
  /\ req.aid_amount \in 1..100

\* Thread p's create_signal_fire call is taken up in this step.
CreateCalled(p) == pc[p] = "idle" /\ pc'[p] # "idle" /\ loc'[p].op = "create"

\* Invalid input is refused with a validation error and nothing is persisted;
\* valid input goes on to the store.
CreateValidates(p) ==
  CreateCalled(p) =>
    IF ValidFire(loc'[p].req)
      THEN pc'[p] = "create_insert"
      ELSE /\ pc'[p] = "done"
           /\ Taxonomy(res'[p].kind) = "Validation"
           /\ tables' = tables

\* Thread p's insert adds exactly one record: Active, with heat cost 5.0, an expiry
\* 72 hours after the issuance instant and the 8-character code that is returned.
CreatePersists(p) ==
  /\ Len(signal_fires') = Len(signal_fires) + 1
  /\ RowsKept(signal_fires, signal_fires')
  /\ LET r == signal_fires'[Len(signal_fires')] IN
     /\ r.redeemed = 0
     /\ r.redeemed_at = NULL
     /\ r.heat_cost = 5
     /\ r.expires_at = loc[p].issued_at + 3
     /\ r.aid_type = loc[p].req.aid_type
     /\ r.aid_amount = loc[p].req.aid_amount
     /\ Len(r.code) = 8
     /\ pc'[p] = "done"
     /\ res'[p].kind = "Ok"
     /\ res'[p].val.code = r.code

\* Every stored signal fire has an aid amount in 1..100 and a catalog aid type.
StoredFiresValid ==
  \A i \in 1..Len(signal_fires') : ValidFire(signal_fires'[i])

\* C17 as stated: valid input always persists one new record.
C17_OriginalStep ==
  /\ \A p \in Procs :
       /\ CreateValidates(p)
       /\ (pc[p] = "create_insert" /\ pc'[p] # "create_insert") => CreatePersists(p)
  /\ StoredFiresValid

C17_Original == [][C17_OriginalStep]_vars

\* C17: create_signal_fire with an aid type outside the catalog or an amount
\* outside 1..100 fails with a validation error and persists nothing; with valid
\* input it either fails with a storage error and persists nothing, when the code
\* it generated is already stored, or persists exactly one new record that is
\* Active, carries heat cost 5.0 and an expiry equal to the issuance instant plus
\* 72 hours, and returns that record's 8-character code; every stored signal fire
\* has an aid amount in 1..100 and a catalog aid type.
C17_CreateValidatesAndPersistsStep ==
  /\ \A p \in Procs :
       /\ CreateValidates(p)
       /\ (pc[p] = "create_insert" /\ pc'[p] # "create_insert") =>
            IF FireRows(loc[p].code) # {}
              THEN /\ pc'[p] = "done"
                   /\ Taxonomy(res'[p].kind) = "Storage"
                   /\ tables' = tables
              ELSE CreatePersists(p)
  /\ StoredFiresValid

C17_CreateValidatesAndPersists == [][C17_CreateValidatesAndPersistsStep]_vars

\* One thread's fire is stored and returned, another's insert of the same code has
\* failed, a day after both were issued.
C17_Witness ==
  \E p, q \in Procs :
    /\ Finished(p, "create") /\ res[p].kind = "Ok"
    /\ Finished(q, "create") /\ res[q].kind = "Db"
    /\ Len(signal_fires) = 1
    /\ signal_fires[1].code = res[p].val.code
    /\ signal_fires[1].expires_at = loc[p].issued_at + 3
    /\ now > loc[p].issued_at

\* C18: no operation blocks indefinitely waiting for store access: an operation
\* whose wait for the connection has exceeded the fixed budget has failed with a
\* storage (busy) error; it is neither still waiting nor served late.
C18_WaitIsBounded ==
  \A p \in Procs :
    (loc[p].op = "contribute" /\ loc[p].waited > BUSY_TIMEOUT_MS) =>
      /\ pc[p] = "done"
      /\ Taxonomy(res[p].kind) = "Storage"

\* Thread p takes a step of get_leaderboard or get_ghost_tape.
ReadStep(p) ==
  /\ pc'[p] # pc[p]
  /\ \/ loc[p].op \in {"leaderboard", "ghost_tape"} /\ pc'[p] # "idle"
     \/ pc[p] = "idle" /\ loc'[p].op \in {"leaderboard", "ghost_tape"}

\* C19: persisted runs are immutable and rank is a snapshot.  No step of any
\* operation changes or deletes a field of a stored run, no rank is stored against
\* a run, and the steps of get_leaderboard and get_ghost_tape leave every table
\* unchanged.
C19_RunsImmutableStep ==
  /\ RowsKept(runs, runs')
  /\ \A i \in 1..Len(runs') : "rank" \notin DOMAIN runs'[i]
  /\ \A p \in Procs : ReadStep(p) => tables' = tables

C19_RunsImmutable == [][C19_RunsImmutableStep]_vars

\* Two runs are stored, the second by the player of the first, and a leaderboard
\* query made since has listed both.
C19_Witness ==
  /\ Len(runs) = 2
  /\ runs[1].player_name = runs[2].player_name
  /\ \E p \in Procs :
       /\ Finished(p, "leaderboard")
       /\ res[p].kind = "Ok"
       /\ Len(res[p].val) = 2

\* C20: a store failure is never silently swallowed.  An operation one of whose
\* statements has failed, for a reason other than a concurrent create-if-absent
\* conflict, returns a Storage error; a failed lookup of the week's seed in
\* get_or_create_regatta is not answered as if no seed were stored yet.
C20_StoreFailuresSurface ==
  \A p \in Procs :
    (pc[p] = "done" /\ "failed" \in DOMAIN loc[p]) => Taxonomy(res[p].kind) = "Storage"

\* The carry into byte i (of 1..8, big-endian; 9 is below the last byte) when the
\* 64-bit integers a and b are added.
RECURSIVE CarryInto(_, _, _)
CarryInto(a, b, i) ==
  IF i = 8 THEN 0 ELSE (a[i + 1] + b[i + 1] + CarryInto(a, b, i + 1)) \div 256

\* a + b = 0 modulo 2^64.
SumsToZero64(a, b) == \A i \in 1..8 : (a[i] + b[i] + CarryInto(a, b, i)) % 256 = 0

\* C21: for every value x of the first 8 digest bytes read as a big-endian signed
\* 64-bit integer, the derived seed is the absolute value of x (x itself when x is
\* not negative, the integer that sums with x to zero otherwise) and is not
\* negative, the least 64-bit integer included.
C21_SeedIsAbsoluteValue ==
  \A p \in Procs : Finished(p, "derive_seed") =>
    LET x == loc[p].digest
        seed == res[p].val
    IN
    /\ seed[1] < 128
    /\ IF x[1] < 128 THEN seed = x ELSE SumsToZero64(x, seed)

\* Thread p's redeem_signal_fire call ends in a failure in this step.
RedeemFails(p) ==
  /\ pc[p] \in {"redeem_select", "redeem_check", "redeem_update"}
  /\ pc'[p] = "done"
  /\ res'[p].kind # "Ok"

\* C22: redeem_signal_fire reports failures in priority order.  A code with no
\* stored record yields a not-found error; a stored code that is redeemed yields
\* the already-redeemed refusal, past its expiry or not; the expired refusal is
\* reported only for a stored code that is past its expiry and not redeemed.
\* Every failed redeem leaves the signal_fires table unchanged.
C22_RedeemFailurePriorityStep ==
  \A p \in Procs : RedeemFails(p) =>
    /\ signal_fires' = signal_fires
    /\ FireRows(loc[p].code) = {} => Taxonomy(res'[p].kind) = "NotFound"
    /\ \A i \in FireRows(loc[p].code) :
         /\ Taxonomy(res'[p].kind) # "NotFound"
         /\ signal_fires[i].redeemed # 0 => res'[p].msg = "Signal fire already redeemed"
         /\ res'[p].msg = "Signal fire expired" =>
              (signal_fires[i].redeemed = 0 /\ now > signal_fires[i].expires_at)

C22_RedeemFailurePriority == [][C22_RedeemFailurePriorityStep]_vars

\* Thread p's get_or_create_regatta call is answered in this step.
RegattaAnswered(p) == pc[p] = "regatta_conn" /\ pc'[p] = "done" /\ res'[p].kind = "Ok"

\* C23: the top_runs get_or_create_regatta returns are the highest-scoring stored
\* runs, 10 at most, whose seed is the regatta seed returned and whose week key is
\* the week key returned, in non-increasing score order; a run with the regatta
\* seed and another week key, or with the week key and another seed, is not among
\* them.
C23_RegattaTopRunsStep ==
  \A p \in Procs : RegattaAnswered(p) =>
    LET out == res'[p].val.top_runs
        pool == {i \in 1..Len(runs) :
                   /\ runs[i].seed = res'[p].val.seed
                   /\ runs[i].week_key = res'[p].val.week_key}
    IN
    /\ Len(out) = (IF Cardinality(pool) < 10 THEN Cardinality(pool) ELSE 10)
    /\ Listed(out) \subseteq pool
    /\ Cardinality(Listed(out)) = Len(out)
    /\ \A a \in 1..Len(out) : out[a].score = runs[out[a].id].score
    /\ \A a, b \in 1..Len(out) : a < b => out[a].score >= out[b].score
    /\ \A o \in pool \ Listed(out) : \A a \in 1..Len(out) : runs[o].score <= out[a].score

C23_RegattaTopRuns == [][C23_RegattaTopRunsStep]_vars

\* A regatta has listed 10 of more than 10 runs of its seed and week, and left out
\* a higher-scoring run of the same week with another seed.
C23_Witness ==
  \E p \in Procs :
    /\ Finished(p, "regatta")
    /\ res[p].kind = "Ok"
    /\ Len(res[p].val.top_runs) = 10
    /\ Cardinality({i \in 1..Len(runs) : runs[i].seed = res[p].val.seed
                                          /\ runs[i].week_key = res[p].val.week_key}) > 10
    /\ \E i \in 1..Len(runs) :
         /\ runs[i].week_key = res[p].val.week_key
         /\ runs[i].seed # res[p].val.seed
         /\ runs[i].score > res[p].val.top_runs[1].score

\* The positions of a name that hold something other than whitespace.
Inked(name) == {i \in 1..Len(name) : name[i] \notin {" ", "\t", "\n"}}

\* The name the spec has persisted for a submitted one: "Anonymous" when nothing
\* but whitespace was submitted, otherwise the first 32 characters from the first
\* non-whitespace character up to the last.
ExpectedName(name) ==
  IF Inked(name) = {} THEN <<"A", "n", "o", "n", "y", "m", "o", "u", "s">>
  ELSE LET first == CHOOSE i \in Inked(name) : \A j \in Inked(name) : i <= j
           last == CHOOSE i \in Inked(name) : \A j \in Inked(name) : i >= j
       IN SubSeq(name, first, IF last - first + 1 > 32 THEN first + 31 ELSE last)

\* C24: the player name persisted by submit_run is never empty and has at most 32
\* characters; it is "Anonymous" when the submitted name is empty after trimming
\* surrounding whitespace and the first 32 characters of the trimmed name
\* otherwise; the name never makes a submission fail.
C24_PlayerNameNormalisedStep ==
  \A p \in Procs :
    /\ (pc[p] = "idle" /\ pc'[p] # "idle" /\ loc'[p].op = "submit"
          /\ ~InvalidSubmission(loc'[p].req)) => pc'[p] = "submit_conn"
    /\ (pc[p] = "submit_conn" /\ pc'[p] # "submit_conn") =>
         /\ pc'[p] = "done"
         /\ res'[p].kind = "Ok"
         /\ LET stored == runs'[res'[p].val.id].player_name IN
            /\ stored = ExpectedName(loc[p].req.player_name)
            /\ Len(stored) \in 1..32

C24_PlayerNameNormalised == [][C24_PlayerNameNormalisedStep]_vars

\* A run is stored as "Anonymous" and another under a name of 32 characters.
C24_Witness ==
  /\ \E i \in 1..Len(runs) : runs[i].player_name = <<"A", "n", "o", "n", "y", "m", "o", "u", "s">>
  /\ \E i \in 1..Len(runs) : Len(runs[i].player_name) = 32

\* Thread p's contribute_tide call is answered in this step.
ContributeAnswered(p) == pc[p] \in {"contribute_conn", "conn_held"} /\ pc'[p] = "done"

\* C25: contribute_tide is append-only and unconditional.  Whatever the metric and
\* the value, it returns accepted = true and adds exactly one tide_contributions
\* row, with that metric and value and the week key of the call; the rows stored
\* before and every other table are unchanged, and a contribution equal to a
\* stored one adds a further row.
C25_ContributeAppendsStep ==
  /\ RowsKept(tide_contributions, tide_contributions')
  /\ \A p \in Procs : ContributeAnswered(p) =>
       /\ res'[p].kind = "Ok"
       /\ res'[p].val.accepted = TRUE
       /\ Len(tide_contributions') = Len(tide_contributions) + 1
       /\ LET r == tide_contributions'[Len(tide_contributions')] IN
          /\ r.metric = loc[p].req.metric
          /\ r.value = loc[p].req.value
          /\ r.week_key = WeekKeyOf(loc[p].called_at)
       /\ <<runs, regattas, signal_fires, tide_omens>>' =
            <<runs, regattas, signal_fires, tide_omens>>

C25_ContributeAppends == [][C25_ContributeAppendsStep]_vars

\* Two contributions of one metric and value are stored for one week, both
\* accepted.
C25_Witness ==
  /\ Len(tide_contributions) = 2
  /\ tide_contributions[1].metric = tide_contributions[2].metric
  /\ tide_contributions[1].value = tide_contributions[2].value
  /\ tide_contributions[1].week_key = tide_contributions[2].week_key
  /\ \A p \in Procs : Finished(p, "contribute") /\ res[p].kind = "Ok"

====
